---- MODULE Spec2Model ----
(***************************************************************************)
(* Model of autotranslate/services.py: the paid Google API backend         *)
(* (GoogleAPITranslatorService) and the Yandex Cloud backend               *)
(* (YandexAPITranslatorService).  Each public method is one action; the    *)
(* recursive batching of GoogleAPITranslatorService.translate_strings is   *)
(* the RECURSIVE operator translate_strings, computed as the code does.    *)
(* The remote services are the environment: their answers and failures are *)
(* inputs of the actions.                                                  *)
(***************************************************************************)
EXTENDS Integers, Sequences, FiniteSets, TLC

\* ------------------------------------------------------------------ bounds
MaxLen == 5          \* longest batch handed to translate_strings
MaxSegments == 2     \* largest max_segments an instance is constructed with
MaxCalls == 3        \* top-level calls made on one instance
MaxBatch == 2        \* longest batch handed to the Yandex backend

None == "None"

\* The source texts are numbered: text i is the i-th entry of the catalog.
Texts == 1..MaxLen

\* The batches handed to translate_strings: the first n texts, in order.  The
\* items of a batch are pairwise distinct, so that any reordering, loss or
\* duplication of items shows in the result.
Batch(n) == [i \in 1..n |-> i]
Batches == {Batch(n) : n \in 0..MaxLen}

Min(a, b) == IF a < b THEN a ELSE b

VARIABLES
    \* GoogleAPITranslatorService instance
    max_segments,         \* self.max_segments
    request_count,        \* self.request_count
    translated_strings,   \* self.translated_strings, the accumulation buffer
    \* YandexAPITranslatorService instance
    api_key,              \* self.api_key
    iam_token,            \* self.iam_token
    folder_id,            \* self.folder_id
    constructed,          \* "ok" or "ValueError": how __init__ ended
    yandex_request_count, \* self.request_count of the Yandex instance
    \* the caller's view of the most recent top-level call
    call,                 \* [op, arg] of the most recent call (Yandex: and the
                          \* response the service gave it)
    outcome,              \* "none", "returned" or "raised"
    result,               \* the value it returned, as it was at the return
    error,                \* the exception it raised
    \* history of the environment
    requests,             \* network requests issued by the most recent call
    network_calls,        \* network requests issued since construction
    buffer_before,        \* translated_strings when the most recent call began
    stub_failed,          \* some network request has raised since construction
    ncalls                \* top-level calls made since construction

googleVars == <<max_segments, request_count, translated_strings>>
yandexVars == <<api_key, iam_token, folder_id, constructed, yandex_request_count>>
vars == <<max_segments, request_count, translated_strings,
          api_key, iam_token, folder_id, constructed, yandex_request_count,
          call, outcome, result, error,
          requests, network_calls, buffer_before, stub_failed, ncalls>>

\* ---------------------------------------------------------------- helpers

\* The backend's translation of one text: a deterministic per-item function.
TranslatedText(s) == <<"translated", s>>

\* [t.get('translatedText') for t in response.get('translations')] of the
\* response to .list(q=q).execute(): one translation per item of q, in order.
Execute(q) == [i \in 1..Len(q) |-> TranslatedText(q[i])]

FirstChunk_short(strings, n) == SubSeq(strings, 1, Min(n, Len(strings)) - 1)

\* Python's strings[0:n]
FirstChunk(strings, n) == SubSeq(strings, 1, Min(n, Len(strings)))

\* Python's strings[n:]
Remainder(strings, n) == SubSeq(strings, Min(n, Len(strings)) + 1, Len(strings))

IsEmpty_unchecked(strings) == FALSE

\* len(strings) == 0
IsEmpty(strings) == Len(strings) = 0

FinishChunked_noReset(self, ret) == [self EXCEPT !.ret = ret]

\* self.translated_strings = [] ; return _translated_strings
FinishChunked(self, ret) == [self EXCEPT !.translated_strings = <<>>, !.ret = ret]

\* One request of at most max_segments items: the elif branch.  The request
\* whose index in this top-level call is fail_at raises out of .execute(),
\* before request_count and the buffer are touched.  The value returned is
\* the buffer itself (the same list object), read here as it is at the return.
SingleRequest(self, strings, fail_at) ==
    LET sent == [self EXCEPT !.requests = Append(@, strings)] IN
    IF Len(sent.requests) = fail_at
    THEN [sent EXCEPT !.raised = TRUE]
    ELSE LET buf == sent.translated_strings \o Execute(strings) IN
         [sent EXCEPT !.request_count = @ + 1,
                      !.translated_strings = buf,
                      !.ret = buf]

RECURSIVE translate_strings(_, _, _)
\* GoogleAPITranslatorService.translate_strings(strings, optimized=False) on
\* the instance state self; the result is the instance state afterwards, with
\* the requests issued, whether it raised, and the value returned.
translate_strings(self, strings, fail_at) ==
    IF IsEmpty(strings)
    THEN [self EXCEPT !.ret = <<>>]
    ELSE IF Len(strings) <= max_segments
    THEN SingleRequest(self, strings, fail_at)
    ELSE LET first == translate_strings(self, FirstChunk(strings, max_segments), fail_at) IN
         IF first.raised THEN first
         ELSE LET rest == translate_strings(first, Remainder(strings, max_segments), fail_at) IN
              IF rest.raised THEN rest
              ELSE FinishChunked(rest, rest.ret)

\* --------------------------------------------------------- Yandex backend

HTTP_OK == 200

\* Values a Django setting can have: unset, empty, or set
SettingValues(v) == {None, "", v}

\* Python truthiness of a setting
Truthy(v) == v # None /\ v # ""

InitRaises_either(key, token, folder) ==
    ~Truthy(key) /\ ~(Truthy(token) \/ Truthy(folder))

\* __init__: not self.api_key and not (self.iam_token and self.folder_id)
InitRaises(key, token, folder) ==
    ~Truthy(key) /\ ~(Truthy(token) /\ Truthy(folder))

\* The if / elif / else that picks use_auth and the headers; None is the
\* else branch, which raises ValueError before any request is made.
Auth(key, token) ==
    IF Truthy(key)
    THEN [use_auth |-> "api-key",
          headers  |-> [ContentType |-> "application/json", Authorization |-> <<"Api-Key", key>>]]
    ELSE IF Truthy(token)
    THEN [use_auth |-> "iam",
          headers  |-> [ContentType |-> "application/json", Authorization |-> <<"Bearer", token>>]]
    ELSE [use_auth |-> None]

\* JSON bodies the service can answer with
JsonBodies ==
    {[translations |-> ts] :
        ts \in {<<>>, <<[text |-> TranslatedText(1)]>>,
                <<[text |-> TranslatedText(2)], [text |-> TranslatedText(1)]>>}}
    \cup {[error |-> "bad request"],
          [error |-> "quota", translations |-> <<[text |-> TranslatedText(1)]>>],
          [message |-> "empty"]}

Bodies == {[json |-> TRUE, data |-> d] : d \in JsonBodies} \cup {[json |-> FALSE, raw |-> "<html>"]}

\* What requests.post can do: raise, or return a response
Responses ==
    {[kind |-> "ConnectionError"]}
    \cup {[kind |-> "http", status_code |-> c, body |-> b] : c \in {HTTP_OK, 403, 500}, b \in Bodies}

StatusOk_any(response) == TRUE

\* response.status_code != 200, negated
StatusOk(response) == response.status_code = HTTP_OK

\* [item['text'] for item in data.get('translations', [])]
TranslatedTexts(data) ==
    IF "translations" \in DOMAIN data
    THEN [i \in 1..Len(data.translations) |-> data.translations[i].text]
    ELSE <<>>

FirstOrText_last(translated_text, text) ==
    IF translated_text # <<>> THEN translated_text[Len(translated_text)] ELSE text

\* translated_text[0] if translated_text else text
FirstOrText(translated_text, text) ==
    IF translated_text # <<>> THEN translated_text[1] ELSE text

\* YandexAPITranslatorService.translate_strings(strings, target_language) on
\* the instance state self, the service answering with response.
yandex_translate_strings(self, strings, target_language, response) ==
    LET body == [targetLanguageCode |-> target_language,
                 texts              |-> strings,
                 folderId           |-> folder_id]
        auth == Auth(api_key, iam_token)
    IN
    IF auth.use_auth = None
    THEN [self EXCEPT !.raised = TRUE, !.error = [type |-> "ValueError"]]
    ELSE LET posted == [self EXCEPT !.requests = Append(@, [json |-> body, headers |-> auth.headers])] IN
    IF response.kind = "ConnectionError"
    THEN [posted EXCEPT !.raised = TRUE, !.error = [type |-> "ConnectionError"]]
    ELSE LET counted == [posted EXCEPT !.request_count = @ + 1] IN
    IF ~StatusOk(response)
    THEN [counted EXCEPT !.raised = TRUE,
                         !.error = [type        |-> "Exception",
                                    status_code |-> response.status_code,
                                    text        |-> response.body,
                                    use_auth    |-> auth.use_auth]]
    ELSE IF ~response.body.json
    THEN [counted EXCEPT !.raised = TRUE, !.error = [type |-> "JSONDecodeError"]]
    ELSE IF "error" \in DOMAIN response.body.data
    THEN [counted EXCEPT !.raised = TRUE,
                         !.error = [type |-> "Exception", error |-> response.body.data.error]]
    ELSE [counted EXCEPT !.ret = TranslatedTexts(response.body.data)]

\* ------------------------------------------------------------------- Init

\* The instance after a successful construction (GOOGLE_TRANSLATE_KEY set).
\* max_segments is the per-request limit of the API, so it is at least 1.
GoogleInit ==
    /\ max_segments \in 1..MaxSegments
    /\ request_count = 0
    /\ translated_strings = <<>>

HistoryInit ==
    /\ call = [op |-> None, arg |-> None]
    /\ outcome = "none"
    /\ result = None
    /\ error = None
    /\ requests = <<>>
    /\ network_calls = 0
    /\ buffer_before = <<>>
    /\ stub_failed = FALSE
    /\ ncalls = 0

NoYandex ==
    /\ api_key = None
    /\ iam_token = None
    /\ folder_id = None
    /\ constructed = None
    /\ yandex_request_count = 0

Init == GoogleInit /\ HistoryInit /\ NoYandex

\* ---------------------------------------------------------------- actions

\* GoogleAPITranslatorService.translate_strings(strings, ..., optimized=False)
GoogleTranslateStrings(strings, fail_at) ==
    /\ ncalls < MaxCalls
    /\ LET self == [request_count      |-> request_count,
                    translated_strings |-> translated_strings,
                    requests           |-> <<>>,
                    raised             |-> FALSE,
                    ret                |-> None]
           after == translate_strings(self, strings, fail_at)
       IN /\ request_count' = after.request_count
          /\ translated_strings' = after.translated_strings
          /\ requests' = after.requests
          /\ network_calls' = network_calls + Len(after.requests)
          /\ outcome' = IF after.raised THEN "raised" ELSE "returned"
          /\ result' = IF after.raised THEN None ELSE after.ret
          /\ error' = IF after.raised THEN "HttpError" ELSE None
          /\ stub_failed' = (stub_failed \/ after.raised)
    /\ call' = [op |-> "translate_strings", arg |-> strings]
    /\ buffer_before' = translated_strings
    /\ ncalls' = ncalls + 1
    /\ UNCHANGED <<max_segments, yandexVars>>

\* GoogleAPITranslatorService.translate_string(text, ...)
GoogleTranslateString(text, fails) ==
    /\ ncalls < MaxCalls
    /\ requests' = << <<text>> >>
    /\ network_calls' = network_calls + 1
    /\ outcome' = IF fails THEN "raised" ELSE "returned"
    /\ result' = IF fails THEN None ELSE Head(Execute(<<text>>))
    /\ error' = IF fails THEN "HttpError" ELSE None
    /\ stub_failed' = (stub_failed \/ fails)
    /\ call' = [op |-> "translate_string", arg |-> text]
    /\ buffer_before' = translated_strings
    /\ ncalls' = ncalls + 1
    /\ UNCHANGED <<googleVars, yandexVars>>

Next ==
    \/ \E strings \in Batches :
         \E fail_at \in 0..Len(strings) :
            GoogleTranslateStrings(strings, fail_at)
    \/ \E text \in Texts, fails \in BOOLEAN : GoogleTranslateString(text, fails)

Spec == Init /\ [][Next]_vars

\* The Yandex instance: the settings are read and checked by __init__
YandexInit ==
    /\ api_key \in SettingValues("key")
    /\ iam_token \in SettingValues("token")
    /\ folder_id \in SettingValues("folder")
    /\ constructed = IF InitRaises(api_key, iam_token, folder_id) THEN "ValueError" ELSE "ok"
    /\ yandex_request_count = 0

NoGoogle ==
    /\ max_segments = None
    /\ request_count = 0
    /\ translated_strings = <<>>

InitYandex == YandexInit /\ HistoryInit /\ NoGoogle

YandexSelf ==
    [request_count |-> yandex_request_count,
     requests      |-> <<>>,
     raised        |-> FALSE,
     error         |-> None,
     ret           |-> None]

YandexReturn(after, value) ==
    /\ yandex_request_count' = after.request_count
    /\ requests' = after.requests
    /\ network_calls' = network_calls + Len(after.requests)
    /\ outcome' = IF after.raised THEN "raised" ELSE "returned"
    /\ result' = IF after.raised THEN None ELSE value
    /\ error' = after.error
    /\ stub_failed' = (stub_failed \/ after.raised)
    /\ ncalls' = ncalls + 1
    /\ UNCHANGED <<api_key, iam_token, folder_id, constructed, googleVars,
                   buffer_before>>

\* YandexAPITranslatorService.translate_strings(strings, target_language)
YandexTranslateStrings(strings, response) ==
    /\ constructed = "ok"
    /\ ncalls < MaxCalls
    /\ LET after == yandex_translate_strings(YandexSelf, strings, "ru", response)
       IN YandexReturn(after, after.ret)
    /\ call' = [op |-> "translate_strings", arg |-> strings, response |-> response]

\* YandexAPITranslatorService.translate_string(text, target_language)
YandexTranslateString(text, response) ==
    /\ constructed = "ok"
    /\ ncalls < MaxCalls
    /\ LET after == yandex_translate_strings(YandexSelf, <<text>>, "ru", response)
       IN YandexReturn(after, IF after.raised THEN None ELSE FirstOrText(after.ret, text))
    /\ call' = [op |-> "translate_string", arg |-> text, response |-> response]

NextYandex ==
    \/ \E strings \in {Batch(n) : n \in 0..MaxBatch}, response \in Responses :
         YandexTranslateStrings(strings, response)
    \/ \E text \in 1..MaxBatch, response \in Responses :
         YandexTranslateString(text, response)

SpecYandex == InitYandex /\ [][NextYandex]_vars

\* --------------------------------------------- properties, Google backend

\* ceil(n / m)
CeilDiv(n, m) == (n + m - 1) \div m

RECURSIVE Concat(_)
\* The chunks of a request log, joined in the order they were sent
Concat(chunks) == IF chunks = <<>> THEN <<>> ELSE Head(chunks) \o Concat(Tail(chunks))

Returned(op) == call.op = op /\ outcome = "returned"
Short(c) == c.op = "translate_strings" /\ Len(c.arg) <= max_segments
Chunked(c) == c.op = "translate_strings" /\ Len(c.arg) > max_segments

\* C1: with a stub that never fails, every translate_strings call with a
\* non-empty input returns exactly len(strings) items, the i-th being the
\* translation of strings[i], whatever calls were made before on the instance.
C1_OrderAndLength ==
    (Returned("translate_strings") /\ call.arg # <<>> /\ ~stub_failed)
        => /\ Len(result) = Len(call.arg)
           /\ \A i \in 1..Len(call.arg) : result[i] = TranslatedText(call.arg[i])

\* C2: the first call on a fresh instance, with n > 0 items, issues
\* ceil(n / max_segments) requests of at most max_segments items each, the
\* chunks in input order, and returns the input translated item by item.
C2_Chunking ==
    (ncalls = 1 /\ Returned("translate_strings") /\ call.arg # <<>>)
        => /\ Len(requests) = CeilDiv(Len(call.arg), max_segments)
           /\ \A i \in 1..Len(requests) : Len(requests[i]) <= max_segments
           /\ Concat(requests) = call.arg
           /\ result = [i \in 1..Len(call.arg) |-> TranslatedText(call.arg[i])]

C2_Witness ==
    /\ ncalls = 1
    /\ Returned("translate_strings")
    /\ Len(call.arg) = 2 * max_segments + 3
    /\ Len(requests) > 2

\* C3: request_count equals the number of network calls issued since
\* construction, after any sequence of calls, failed requests included.
C3_RequestCountExact == request_count = network_calls

\* C4: when a chunked top-level call has returned the buffer is empty, and a
\* following call with at most max_segments items returns the translations of
\* its own input and nothing else, so no item of the previous result.
C4_BufferReset ==
    /\ []((Chunked(call) /\ outcome = "returned") => translated_strings = <<>>)
    /\ [][(Chunked(call) /\ outcome = "returned"
            /\ ncalls' = ncalls + 1 /\ Short(call') /\ outcome' = "returned")
           => result' = [i \in 1..Len(call'.arg) |-> TranslatedText(call'.arg[i])]]_vars

\* The second call of an instance, short and returned, after a first call that
\* issued two or more requests without a failure: a chunked call that returned.
C4_Witness ==
    /\ ncalls = 2 /\ ~stub_failed
    /\ Short(call) /\ call.arg # <<>> /\ outcome = "returned"
    /\ network_calls > Len(requests) + 1
    /\ result = [i \in 1..Len(call.arg) |-> TranslatedText(call.arg[i])]

\* C5: translate_strings([]) returns an empty sequence, issues no network
\* call and leaves request_count and the buffer as they were, in every state.
C5_EmptyInput ==
    [][(ncalls' = ncalls + 1 /\ call'.op = "translate_strings" /\ call'.arg = <<>>)
        => /\ outcome' = "returned"
           /\ result' = <<>>
           /\ requests' = <<>>
           /\ network_calls' = network_calls
           /\ request_count' = request_count
           /\ translated_strings' = translated_strings]_vars

C5_Witness ==
    /\ Returned("translate_strings") /\ call.arg = <<>>
    /\ result = <<>>
    /\ translated_strings # <<>>
    /\ request_count > 0

\* C9: whenever a top-level translate_strings call has returned, the buffer
\* holds nothing of earlier calls: it is no longer than the call's input.
C9_BufferDoesNotGrow ==
    (Returned("translate_strings") /\ ~stub_failed)
        => Len(translated_strings) <= Len(call.arg)

\* C10: when a request raises in a chunked call after an earlier chunk was
\* translated, the buffer is left as it was before the top-level call.
C10_BufferRestoredOnError ==
    (call.op = "translate_strings" /\ outcome = "raised" /\ Len(requests) > 1)
        => translated_strings = buffer_before
\* --------------------------------------------- properties, Yandex backend

Http(r) == r.kind = "http"

\* C6: translate_strings ends in an Exception carrying the status code and
\* the body text for every response whose status is not 200, and in an
\* Exception for every 200 response whose JSON body has an `error` field; it
\* returns only for a 200 response without one, and then the `text` of each
\* item of `translations` in the order received.
C6_ErrorSurfacing ==
    (call.op = "translate_strings") =>
        LET r == call.response IN
        /\ (Http(r) /\ r.status_code # 200)
             => /\ outcome = "raised"
                /\ error.type = "Exception"
                /\ error.status_code = r.status_code
                /\ error.text = r.body
        /\ (Http(r) /\ r.status_code = 200 /\ r.body.json /\ "error" \in DOMAIN r.body.data)
             => (outcome = "raised" /\ error.type = "Exception")
        /\ outcome = "returned"
             => /\ Http(r) /\ r.status_code = 200 /\ r.body.json
                /\ "error" \notin DOMAIN r.body.data
                /\ Len(result) = Len(TranslatedTexts(r.body.data))
                /\ \A i \in 1..Len(result) : result[i] = r.body.data.translations[i].text

C6_Witness ==
    /\ call.op = "translate_strings"
    /\ outcome = "raised"
    /\ error.type = "Exception"
    /\ call.response.status_code = 200
    /\ "error" \in DOMAIN call.response.body.data

\* C7: on an instance whose construction succeeded every call issues its
\* request with an Authorization header, `Api-Key <key>` whenever an API key
\* is configured and `Bearer <token>` only when none is; the branch that
\* raises for missing credentials is never taken.
C7_Credentials ==
    (constructed = "ok" /\ ncalls > 0) =>
        /\ Len(requests) = 1
        /\ "Authorization" \in DOMAIN requests[1].headers
        /\ Truthy(api_key) => requests[1].headers.Authorization = <<"Api-Key", api_key>>
        /\ requests[1].headers.Authorization[1] = "Bearer"
             => (~Truthy(api_key) /\ requests[1].headers.Authorization[2] = iam_token)
        /\ requests[1].headers.Authorization[1] \in {"Api-Key", "Bearer"}
        /\ ~(outcome = "raised" /\ error.type = "ValueError")

C7_Witness ==
    /\ constructed = "ok" /\ ncalls > 0
    /\ Truthy(api_key) /\ Truthy(iam_token)
    /\ requests[1].headers.Authorization = <<"Api-Key", api_key>>

\* C8: translate_string issues exactly one request, with the batch [text],
\* and returns the first translation of the response, or text itself when a
\* successful response has no translations.
C8_SingleString ==
    (call.op = "translate_string") =>
        /\ Len(requests) = 1
        /\ requests[1].json.texts = <<call.arg>>
        /\ outcome = "returned" =>
              LET received == TranslatedTexts(call.response.body.data) IN
              result = IF received = <<>> THEN call.arg ELSE received[1]

C8_Witness ==
    /\ call.op = "translate_string"
    /\ outcome = "returned"
    /\ TranslatedTexts(call.response.body.data) = <<>>
    /\ result = call.arg
====
